---- MODULE Spec2Model ----
(***************************************************************************)
(* A model of organize_tablatures.py: the filename classifier (the two     *)
(* regular expressions of store_file and get_artist, reformat_artist) and  *)
(* the file placer (create_folder, move_file) driven by organize_tabs over *)
(* a small file system.                                                    *)
(*                                                                         *)
(* A string is a sequence of one-character strings; a path is a sequence   *)
(* of names (strings), read from the file-system root.                     *)
(***************************************************************************)
EXTENDS Integers, Sequences, FiniteSets, TLC

VARIABLES
    input_dir,   \* organize_tabs: Path(input)
    output_dir,  \* organize_tabs: Path(output)
    files,       \* the file system: path of a regular file -> the file's identity
    dirs,        \* the file system: the set of directory paths
    clock,       \* the wall-clock second datetime.now() returned last
    pc,          \* where the process is: idle, running, done, aborted, crashed
    todo,        \* organize_tabs: the names of only_files the loop has not reached yet
    events,      \* the log records emitted by the latest store_file call
    last,        \* what the latest store_file call saw and did
    runs,        \* number of runs started
    created      \* number of files the environment has put in the input directory

vars == <<input_dir, output_dir, files, dirs, clock, pc, todo, events, last,
          runs, created>>

-----------------------------------------------------------------------------
(* Bounds *)

MaxTokens == 4
MaxSegTokens == 4
MaxClock == 1
MaxRuns == 2
MaxCreated == 2

-----------------------------------------------------------------------------
(* Characters *)

Lowers == <<"a","b","c","d","e","f","g","h","i","j","k","l","m",
            "n","o","p","q","r","s","t","u","v","w","x","y","z">>
Uppers == <<"A","B","C","D","E","F","G","H","I","J","K","L","M",
            "N","O","P","Q","R","S","T","U","V","W","X","Y","Z">>
Digits == <<"0","1","2","3","4","5","6","7","8","9">>

Range(f) == {f[i] : i \in DOMAIN f}

LowerSet == Range(Lowers)
UpperSet == Range(Uppers)
DigitSet == Range(Digits)
LowerOf == [c \in UpperSet |-> Lowers[CHOOSE i \in DOMAIN Uppers : Uppers[i] = c]]
UpperOf == [c \in LowerSet |-> Uppers[CHOOSE i \in DOMAIN Lowers : Lowers[i] = c]]

IsLower(c) == c \in LowerSet
IsUpper(c) == c \in UpperSet
IsLetter(c) == IsLower(c) \/ IsUpper(c)

\* str.lower / str.upper on one character
ToLower(c) == IF IsUpper(c) THEN LowerOf[c] ELSE c
ToUpper(c) == IF IsLower(c) THEN UpperOf[c] ELSE c

\* the classes of the re module
IsSpace(c) == c \in {" ", "\t", "\n"}                  \* \s
IsWord(c) == IsLetter(c) \/ c \in DigitSet \/ c = "_"   \* \w
IsAny(c) == c # "\n"                                   \* . (no DOTALL)

-----------------------------------------------------------------------------
(* The re module, for the patterns this program uses.  A pattern is a      *)
(* sequence of items; an item is an atom, matched once ("one"), or one or  *)
(* more times, longest first ("plus") or shortest first ("lazy").          *)
(* Positions are offsets 0..Len(s): the number of characters consumed.     *)

Item(atom, c, rep) == [atom |-> atom, c |-> c, rep |-> rep]

AtomMatches(it, ch) ==
    CASE it.atom = "any" -> IsAny(ch)
      [] it.atom = "space" -> IsSpace(ch)
      [] it.atom = "word" -> IsWord(ch)
      [] it.atom = "chr" -> ch = it.c
      [] it.atom = "ichr" -> ToLower(ch) = ToLower(it.c)
      [] OTHER -> FALSE

\* the end of the longest run of characters matching the atom from offset i
RECURSIVE RunEnd(_, _, _)
RunEnd(it, s, i) ==
    IF i < Len(s) /\ AtomMatches(it, s[i + 1]) THEN RunEnd(it, s, i + 1) ELSE i

\* the offsets at which one item can end when it starts at offset i
ItemEnds(it, s, i) ==
    CASE it.atom = "bol" -> IF i = 0 THEN {i} ELSE {}
      [] it.atom = "eol" ->
            IF i = Len(s) \/ (i = Len(s) - 1 /\ s[Len(s)] = "\n") THEN {i} ELSE {}
      [] it.rep = "one" ->
            IF i < Len(s) /\ AtomMatches(it, s[i + 1]) THEN {i + 1} ELSE {}
      [] OTHER -> (i + 1)..RunEnd(it, s, i)

\* the offsets at which items k.. of the pattern can end, starting at offset i
RECURSIVE MatchEnds(_, _, _, _)
MatchEnds(items, k, s, i) ==
    IF k > Len(items) THEN {i}
    ELSE UNION {MatchEnds(items, k + 1, s, j) : j \in ItemEnds(items[k], s, i)}

\* whether items k.. can match from offset i (to the end of s when full)
Succeeds(items, k, s, i, full) ==
    IF full THEN Len(s) \in MatchEnds(items, k, s, i)
    ELSE MatchEnds(items, k, s, i) # {}

SetMax(S) == CHOOSE x \in S : \A y \in S : y <= x
SetMin(S) == CHOOSE x \in S : \A y \in S : x <= y

\* The backtracking search: the end offset of every item on the first path
\* (in the engine's order of preference) on which the whole pattern matches.
\* Defined when Succeeds(items, k, s, i, full).
RECURSIVE MatchPath(_, _, _, _, _)
MatchPath(items, k, s, i, full) ==
    IF k > Len(items) THEN <<>>
    ELSE LET ok == {j \in ItemEnds(items[k], s, i) : Succeeds(items, k + 1, s, j, full)}
             j == IF items[k].rep = "lazy" THEN SetMin(ok) ELSE SetMax(ok)
         IN  <<j>> \o MatchPath(items, k + 1, s, j, full)

NoMatch == [matched |-> FALSE, ends |-> <<>>]

\* re.match(pattern, s)
re_match(items, s) ==
    IF Succeeds(items, 1, s, 0, FALSE)
    THEN [matched |-> TRUE, ends |-> MatchPath(items, 1, s, 0, FALSE)]
    ELSE NoMatch

\* re.fullmatch(pattern, s)
re_fullmatch(items, s) ==
    IF Succeeds(items, 1, s, 0, TRUE)
    THEN [matched |-> TRUE, ends |-> MatchPath(items, 1, s, 0, TRUE)]
    ELSE NoMatch

\* the text item k of the pattern matched
Group(m, s, k) ==
    SubSeq(s, (IF k = 1 THEN 0 ELSE m.ends[k - 1]) + 1, m.ends[k])

-----------------------------------------------------------------------------
(* The classifier *)

\* r"(.+)\s-\s.+[.]{1}\w+$"
tablature_regex ==
    << Item("any", "", "plus"), Item("space", "", "one"), Item("chr", "-", "one"),
       Item("space", "", "one"), Item("any", "", "plus"), Item("chr", ".", "one"),
       Item("word", "", "plus"), Item("eol", "", "one") >>

\* mutants of artist_regex: literal spaces around the hyphen; a greedy group
artist_regex_literal ==
    << Item("any", "", "lazy"), Item("chr", " ", "one"), Item("chr", "-", "one"),
       Item("chr", " ", "one") >>

artist_regex_greedy ==
    << Item("any", "", "plus"), Item("space", "", "one"), Item("chr", "-", "one"),
       Item("space", "", "one") >>

\* r"(.+?)\s-\s"
artist_regex ==
    << Item("any", "", "lazy"), Item("space", "", "one"), Item("chr", "-", "one"),
       Item("space", "", "one") >>

\* mutant of the_regex: without (?i)
the_regex_cased ==
    << Item("bol", "", "one"), Item("chr", "t", "one"), Item("chr", "h", "one"),
       Item("chr", "e", "one"), Item("space", "", "plus"), Item("any", "", "plus") >>

\* r"(?i)^the\s+(.+)"
the_regex ==
    << Item("bol", "", "one"), Item("ichr", "t", "one"), Item("ichr", "h", "one"),
       Item("ichr", "e", "one"), Item("space", "", "plus"), Item("any", "", "plus") >>

\* str.title(): a cased character is upper-cased after an uncased one (or at the
\* start) and lower-cased after a cased one
title(s) ==
    [i \in 1..Len(s) |->
        IF i = 1 \/ ~IsLetter(s[i - 1]) THEN ToUpper(s[i]) ELSE ToLower(s[i])]

CommaThe == <<",", " ", "T", "h", "e">>

reformat_artist(name) ==
    LET match == re_match(the_regex, name)
    IN  IF match.matched
        THEN title(Group(match, name, 6)) \o CommaThe
        ELSE title(name)

\* get_artist: raises ValueError, or returns the reformatted artist segment
\* (segment: match.group(1), kept for the properties)
get_artist(filename) ==
    LET match == re_match(artist_regex, filename)
    IN  IF ~match.matched
        THEN [raised |-> TRUE, segment |-> <<>>, artist |-> <<>>]
        ELSE [raised |-> FALSE, segment |-> Group(match, filename, 1),
              artist |-> reformat_artist(Group(match, filename, 1))]

\* mutant of store_file_match: re.match in place of re.fullmatch
store_file_match_prefix(name) == re_match(tablature_regex, name)

\* store_file's structural check
store_file_match(name) == re_fullmatch(tablature_regex, name)

-----------------------------------------------------------------------------
(* Paths (pathlib) and the file system (POSIX, no symbolic links) *)

Dot == <<".">>
DotDot == <<".", ".">>

\* PurePath.joinpath(name) for a single name: a "." component is dropped,
\* a ".." component is kept
joinpath(dir, name) == IF name = Dot THEN dir ELSE Append(dir, name)

\* PurePath.parents: the strict lexical ancestors
parents(p) == {SubSeq(p, 1, k) : k \in 0..(Len(p) - 1)}

\* PurePath.parent
parent(p) == IF p = <<>> THEN p ELSE SubSeq(p, 1, Len(p) - 1)

\* PurePath.name
basename(p) == p[Len(p)]

\* the directory entry the kernel reaches by walking the path
RECURSIVE Resolve(_)
Resolve(p) ==
    IF p = <<>> THEN <<>>
    ELSE LET d == Resolve(SubSeq(p, 1, Len(p) - 1))
             n == p[Len(p)]
         IN  IF n = Dot THEN d
             ELSE IF n = DotDot THEN parent(d)
             ELSE Append(d, n)

LastDot(name) ==
    IF \E i \in 1..Len(name) : name[i] = "."
    THEN SetMax({i \in 1..Len(name) : name[i] = "."})
    ELSE 0

\* PurePath.suffix and PurePath.stem
suffix(name) ==
    LET i == LastDot(name)
    IN  IF 1 < i /\ i < Len(name) THEN SubSeq(name, i, Len(name)) ELSE <<>>

stem(name) ==
    LET i == LastDot(name)
    IN  IF 1 < i /\ i < Len(name) THEN SubSeq(name, 1, i - 1) ELSE name

Pad2(n) == <<Digits[(n \div 10) + 1], Digits[(n % 10) + 1]>>

\* datetime.now(): the clock counts the seconds of one day
now(t) == [day |-> 1, month |-> 11, year |-> 2026,
           hour |-> (t \div 3600) % 24, minute |-> (t \div 60) % 60, second |-> t % 60]

\* strftime("_%d%m%Y_%H%M%S")
strftime(d) ==
    <<"_">> \o Pad2(d.day) \o Pad2(d.month) \o Pad2(d.year \div 100) \o Pad2(d.year % 100)
    \o <<"_">> \o Pad2(d.hour) \o Pad2(d.minute) \o Pad2(d.second)

\* the name move_file gives a file whose first target is occupied at second t
suffixed_name(name, t) == stem(name) \o strftime(now(t)) \o suffix(name)

\* Path.exists()
exists(fs, ds, p) == Resolve(p) \in (DOMAIN fs) \cup ds

\* the directories Path.mkdir(parents=True, exist_ok=True) leaves in place:
\* every lexical prefix of the path, each reached through the file system
MkdirTargets(p) == {Resolve(SubSeq(p, 1, k)) : k \in 1..Len(p)}

\* mkdir raises when a regular file sits where a directory is needed, or when
\* the environment refuses (permissions, name too long, disk full)
mkdir_ok(fs, p, envFails) ==
    ~envFails /\ \A q \in MkdirTargets(p) : q \notin DOMAIN fs

\* os.rename of a regular file: ENOENT without the source, EISDIR onto a
\* directory, or whatever the environment refuses; an existing regular file at
\* the target is replaced
rename_ok(fs, ds, src, dst, envFails) ==
    /\ ~envFails
    /\ Resolve(src) \in DOMAIN fs
    /\ Resolve(dst) \notin ds
    /\ parent(Resolve(dst)) \in ds \cup {<<>>}

rename(fs, src, dst) ==
    LET s == Resolve(src)
        d == Resolve(dst)
    IN  [q \in ((DOMAIN fs) \ {s}) \cup {d} |-> IF q = d THEN fs[s] ELSE fs[q]]

-----------------------------------------------------------------------------
(* The run *)

N_r == <<"r">>
N_in == <<"i", "n">>
N_out == <<"o", "u", "t">>

\* the (input, output) pairs of the command line: apart, equal, output inside
\* input, output above input
DirPairs ==
    { <<(<<N_r, N_in>>), (<<N_r, N_out>>)>>,
      <<(<<N_r, N_in>>), (<<N_r, N_in>>)>>,
      <<(<<N_r, N_in>>), (<<N_r, N_in, N_out>>)>>,
      <<(<<N_r, N_in>>), (<<N_r>>)>> }

\* file names the environment puts in the input directory
Name_a == <<"a", " ", "-", " ", "x", ".", "b">>
Name_dotdot == <<".", ".", " ", "-", " ", "x", ".", "b">>
Name_dot == <<".", " ", "-", " ", "x", ".", "b">>
Name_A == <<"A">>
Name_dash_x_b == <<" ", "-", " ", "x", ".", "b">>
RunNames == {Name_a, Name_dotdot, Name_dot, Name_A}

Prefixes(p) == {SubSeq(p, 1, k) : k \in 0..Len(p)}

\* the record of one store_file call: the file (name, identity), how the call
\* ended (skipped, moved, failed, raised), the exception that left it, group 1 of
\* the structural match, the artist segment and name, the artist folder, the
\* directories mkdir made, whether the first target was occupied, and the target
NoLast ==
    [name |-> <<>>, id |-> -1, outcome |-> "none", error |-> "none", group1 |-> <<>>,
     segment |-> <<>>, artist |-> <<>>, folder |-> <<>>, made |-> {},
     collided |-> FALSE, target |-> <<>>]

\* sys.exit(1) after the precondition check, 0 at the end of organize_tabs, 1 when
\* an exception leaves organize_tabs
ExitStatus ==
    CASE pc = "done" -> 0
      [] pc = "aborted" -> 1
      [] pc = "crashed" -> 1
      [] OTHER -> -1

\* the identity of the regular file at a path (-1: none there)
FileAt(fs, p) == IF Resolve(p) \in DOMAIN fs THEN fs[Resolve(p)] ELSE -1

\* the precondition check of organize_tabs
precondition_fails == output_dir \in parents(input_dir)

\* input_dir.iterdir() filtered by is_file(): the names of the regular files
\* directly in the input directory
list_files == {basename(p) : p \in {q \in DOMAIN files : parent(q) = input_dir}}

\* organize_tabs up to the loop: the precondition check and the listing
StartRun ==
    /\ pc \in {"idle", "done", "aborted", "crashed"}
    /\ runs' = runs + 1
    /\ events' = <<>>
    /\ last' = NoLast
    /\ IF precondition_fails
       THEN /\ pc' = "aborted"
            /\ UNCHANGED todo
       ELSE /\ pc' = "running"
            /\ todo' = list_files
    /\ UNCHANGED <<input_dir, output_dir, files, dirs, clock, created>>

\* create_folder: the artist's directory
create_folder(artist_name) == joinpath(output_dir, artist_name)

\* mutant of move_file: no look at the target before the rename
move_file_unchecked(name, artist_dir, ds, t, renameFails) ==
    LET filepath == Append(input_dir, name)
        target_path == Append(artist_dir, name)
        ok == rename_ok(files, ds, filepath, target_path, renameFails)
    IN  [collided |-> FALSE, target |-> target_path, ok |-> ok,
         files |-> IF ok THEN rename(files, filepath, target_path) ELSE files,
         events |-> IF ok THEN <<"success-info">> ELSE <<"error">>]

\* move_file(filepath, artist_dir) when datetime.now() returns second t and
\* the directories are ds
move_file(name, artist_dir, ds, t, renameFails) ==
    LET filepath == Append(input_dir, name)
        first == Append(artist_dir, name)
        collided == exists(files, ds, first)
        target_path ==
            IF collided
            THEN Append(artist_dir, suffixed_name(name, t))
            ELSE first
        ok == rename_ok(files, ds, filepath, target_path, renameFails)
    IN  [collided |-> collided, target |-> target_path, ok |-> ok,
         files |-> IF ok THEN rename(files, filepath, target_path) ELSE files,
         events |-> (IF collided THEN <<"collision-info">> ELSE <<>>)
                    \o (IF ok THEN <<"success-info">> ELSE <<"error">>)]

\* the names a file of the run can bear: those the environment gives, and
\* those with one timestamp more for every run
RECURSIVE NamesAfter(_)
NamesAfter(k) ==
    IF k = 0 THEN RunNames
    ELSE NamesAfter(k - 1)
         \cup {suffixed_name(n, t) : n \in NamesAfter(k - 1), t \in 0..MaxClock}

KnownNames == NamesAfter(MaxRuns)

\* what store_file computes from the name alone: the structural match and, on
\* a match, get_artist's result
classification(name) ==
    LET match == store_file_match(name)
    IN  [match |-> match,
         ga |-> IF match.matched THEN get_artist(name)
                ELSE [raised |-> FALSE, segment |-> <<>>, artist |-> <<>>]]

\* (computed once for the names of KnownNames)
Classified == [n \in KnownNames |-> classification(n)]

classify(name) == IF name \in KnownNames THEN Classified[name] ELSE classification(name)

\* one iteration of the loop: store_file(file, input_dir, output_dir), with
\* get_artist, create_folder and move_file; an exception that store_file does
\* not catch ends the process.  (Each call's result is bound once, as a value.)
store_file(name) ==
    \E match \in {classify(name).match} :
    LET base == [NoLast EXCEPT !.name = name, !.id = FileAt(files, Append(input_dir, name)),
                               !.group1 = IF match.matched THEN Group(match, name, 1)
                                          ELSE <<>>]
    IN  /\ todo' = todo \ {name}
        /\ IF ~match.matched
           THEN /\ events' = <<"skip-warning">>
                /\ last' = [base EXCEPT !.outcome = "skipped"]
                /\ UNCHANGED <<files, dirs, pc, clock>>
           ELSE \E ga \in {classify(name).ga} :
                IF ga.raised
                THEN /\ events' = <<>>
                     /\ last' = [base EXCEPT !.outcome = "raised", !.error = "ValueError"]
                     /\ pc' = "crashed"
                     /\ UNCHANGED <<files, dirs, clock>>
                ELSE \E artist_dir \in {create_folder(ga.artist)}, mkdirFails \in BOOLEAN :
                     LET seen == [base EXCEPT !.segment = ga.segment, !.artist = ga.artist,
                                              !.folder = artist_dir]
                     IN  IF ~mkdir_ok(files, artist_dir, mkdirFails)
                         THEN /\ events' = <<>>
                              /\ last' = [seen EXCEPT !.outcome = "raised", !.error = "OSError"]
                              /\ pc' = "crashed"
                              /\ UNCHANGED <<files, dirs, clock>>
                         ELSE \E renameFails \in BOOLEAN, t \in clock..MaxClock :
                              \E ds \in {dirs \cup MkdirTargets(artist_dir)} :
                              \E mv \in {move_file(name, artist_dir, ds, t, renameFails)} :
                                 /\ clock' = IF mv.collided THEN t ELSE clock
                                 /\ dirs' = ds
                                 /\ files' = mv.files
                                 /\ events' = mv.events
                                 /\ last' = [seen EXCEPT
                                                !.outcome = IF mv.ok THEN "moved" ELSE "failed",
                                                !.made = ds \ dirs,
                                                !.collided = mv.collided,
                                                !.target = mv.target]
                                 /\ UNCHANGED pc

StoreFile ==
    /\ pc = "running"
    /\ \E name \in todo : store_file(name)
    /\ UNCHANGED <<input_dir, output_dir, runs, created>>

\* the end of organize_tabs: the loop is over (no store_file call is current
\* any more) and the completion message is logged
Finish ==
    /\ pc = "running"
    /\ todo = {}
    /\ pc' = "done"
    /\ events' = <<>>
    /\ last' = NoLast
    /\ UNCHANGED <<input_dir, output_dir, files, dirs, clock, todo, runs, created>>

\* between runs the user drops a new file into the input directory
NewFile ==
    /\ pc # "running"
    /\ created < MaxCreated
    /\ \E name \in RunNames :
          /\ ~exists(files, dirs, Append(input_dir, name))
          /\ files' = [q \in (DOMAIN files) \cup {Append(input_dir, name)} |->
                          IF q = Append(input_dir, name) THEN created + 1 ELSE files[q]]
    /\ created' = created + 1
    /\ UNCHANGED <<input_dir, output_dir, dirs, clock, pc, todo, events, last, runs>>

\* what the output directory holds before the first run: nothing (it may not
\* exist), a regular file named like an artist folder, or an artist folder with
\* a tablature an earlier run has placed
InitDirs(out, content) ==
    CASE content = "empty" -> {}
      [] content = "blocked" -> Prefixes(out)
      [] content = "populated" -> Prefixes(Append(out, Name_A))

InitFiles(out, content) ==
    CASE content = "empty" -> <<>>
      [] content = "blocked" -> (Append(out, Name_A) :> 0)
      [] content = "populated" -> (Append(Append(out, Name_A), Name_a) :> 0)

\* The input directory exists (click checks it).
Init ==
    /\ \E pair \in DirPairs, content \in {"empty", "blocked", "populated"} :
          /\ input_dir = pair[1]
          /\ output_dir = pair[2]
          /\ dirs = Prefixes(pair[1]) \cup InitDirs(pair[2], content)
          /\ files = InitFiles(pair[2], content)
    /\ clock = 0
    /\ pc = "idle"
    /\ todo = {}
    /\ events = <<>>
    /\ last = NoLast
    /\ runs = 0
    /\ created = 0

Next ==
    \/ (runs < MaxRuns /\ StartRun)
    \/ StoreFile
    \/ Finish
    \/ NewFile

Spec == Init /\ [][Next]_vars

-----------------------------------------------------------------------------
(* The classifier on its own: one run over an input directory that holds   *)
(* one file, whose name ranges over the strings built from a few tokens.   *)

\* the strings made of n tokens
RECURSIVE Strings(_, _)
Strings(tokens, n) ==
    IF n = 0 THEN {<<>>}
    ELSE {s \o t : s \in Strings(tokens, n - 1), t \in tokens}

NameTokens ==
    { <<"a">>, <<" ">>, <<"\t">>, <<"\n">>, <<"-">>, <<".">>,
      <<" ", "-", " ">>, <<"\t", "-", "\t">>, <<"x", ".", "b">> }

\* "." and ".." name no file
FileNames == (UNION {Strings(NameTokens, n) : n \in 1..MaxTokens}) \ {Dot, DotDot}

InitOneFile(names) ==
    /\ input_dir = <<N_r, N_in>>
    /\ output_dir = <<N_r, N_out>>
    /\ dirs = Prefixes(input_dir)
    /\ \E name \in names : files = (Append(input_dir, name) :> 1)
    /\ clock = 0
    /\ pc = "idle"
    /\ todo = {}
    /\ events = <<>>
    /\ last = NoLast
    /\ runs = 0
    /\ created = 1

InitClassify == InitOneFile(FileNames)

NextOneRun ==
    \/ (runs = 0 /\ StartRun)
    \/ StoreFile
    \/ Finish

SpecClassify == InitClassify /\ [][NextOneRun]_vars

\* the artist segments: strings of a few tokens with no separator in them,
\* each followed by " - x.b" to make the file's name
SegTokens ==
    { <<"t", "h", "e">>, <<"T", "H", "E">>, <<"T", "h", "e">>, <<"a">>, <<"B">>,
      <<" ">>, <<"\t">>, <<"'">> }

Segments == UNION {Strings(SegTokens, n) : n \in 1..MaxSegTokens}

InitReformat == InitOneFile({seg \o Name_dash_x_b : seg \in Segments})

SpecReformat == InitReformat /\ [][NextOneRun]_vars

-----------------------------------------------------------------------------
(* Properties of the run (specification Spec) *)

Returned == pc = "running" /\ last.outcome \in {"skipped", "moved", "failed"}

\* the output path is the input path or lies below it
OutputInsideInput == output_dir = input_dir \/ input_dir \in parents(output_dir)

\* p is the directory d or lies below it
Inside(p, d) == p = d \/ d \in parents(p)

\* C1: whenever the output path equals the input path or is a descendant of
\* it, a started run is aborted with a non-zero exit status, and store_file is
\* never called: no file is moved and no directory is created.
C1_PreconditionAborts ==
    (OutputInsideInput /\ runs > 0) =>
        /\ pc = "aborted"
        /\ ExitStatus # 0
        /\ last = NoLast

\* C3: once the precondition check has passed, the run never ends before the
\* loop has reached every listed file: it ends with the completion message and
\* exit status 0, whatever happened to single files.
C3_FailureIsolation ==
    pc \in {"done", "crashed"} => (pc = "done" /\ todo = {} /\ ExitStatus = 0)

\* C4: for every matched filename the artist folder is a strict descendant of
\* the output directory, every directory the call creates and the path the file
\* is moved to lie inside the output directory, and the file lands in the
\* artist folder.
C4_WritesConfined ==
    last.outcome \in {"moved", "failed"} =>
        /\ output_dir \in parents(Resolve(last.folder))
        /\ \A d \in last.made : Inside(d, output_dir) \/ d \in parents(output_dir)
        /\ last.outcome = "moved" =>
              /\ parent(Resolve(last.target)) = Resolve(last.folder)
              /\ Inside(Resolve(last.target), output_dir)

\* "_DDMMYYYY_HHMMSS"
IsTimestamp(x) ==
    /\ Len(x) = 16
    /\ x[1] = "_"
    /\ x[10] = "_"
    /\ \A i \in (2..9) \cup (11..16) : x[i] \in DigitSet

\* name is stem + "_DDMMYYYY_HHMMSS" + extension of the file name orig
IsSuffixed(name, orig) ==
    /\ Len(name) = Len(orig) + 16
    /\ SubSeq(name, 1, Len(stem(orig))) = stem(orig)
    /\ IsTimestamp(SubSeq(name, Len(stem(orig)) + 1, Len(stem(orig)) + 16))
    /\ SubSeq(name, Len(stem(orig)) + 17, Len(name)) = suffix(orig)

Locations(id) == {p \in DOMAIN files : files[p] = id}

\* C5: when store_file has returned for a file, the file is at exactly one
\* place: still in the input directory under its own name when it was skipped
\* or its move failed; gone from the input directory and in the artist folder,
\* under its own name (no collision) or under stem + timestamp + extension
\* (collision), when it was moved.
C5_PlacementOutcome ==
    Returned =>
        /\ Cardinality(Locations(last.id)) = 1
        /\ last.outcome \in {"skipped", "failed"} =>
              Locations(last.id) = {Append(input_dir, last.name)}
        /\ last.outcome = "moved" =>
              \A p \in Locations(last.id) :
                 /\ parent(p) # input_dir
                 /\ parent(p) = Resolve(last.folder)
                 /\ IF last.collided THEN IsSuffixed(basename(p), last.name)
                    ELSE basename(p) = last.name

EventKinds == {"skip-warning", "success-info", "collision-info", "error"}

\* C10: every store_file call that fails (pattern mismatch, failed move, failed
\* folder creation) emits exactly one event, every event is one of the four
\* kinds, and success-info is emitted only when the rename has succeeded.
C10_Events ==
    last.outcome # "none" =>
        /\ last.outcome \in {"skipped", "failed", "raised"} => Len(events) = 1
        /\ \A i \in 1..Len(events) : events[i] \in EventKinds
        /\ (\E i \in 1..Len(events) : events[i] = "success-info") => last.outcome = "moved"

\* the step is a store_file call
StoreStep == pc = "running" /\ todo' # todo

FileIds(fs) == {fs[p] : p \in DOMAIN fs}

\* the store_file call of the step found its first target occupied by another
\* entry than the file it moves, and moved the file
CollisionMove ==
    /\ StoreStep
    /\ last'.collided
    /\ last'.outcome = "moved"
    /\ Resolve(Append(last'.folder, last'.name)) # Resolve(Append(input_dir, last'.name))

\* C2 as claimed: no step loses a file, and a file placed at an occupied target
\* leaves the occupant there and lands under the timestamp-suffixed name.
C2_NoFileLost ==
    [][ /\ FileIds(files) \subseteq FileIds(files')
        /\ CollisionMove =>
              /\ FileAt(files', Append(last'.folder, last'.name))
                    = FileAt(files, Append(last'.folder, last'.name))
              /\ exists(files', dirs', Append(last'.folder, last'.name))
              /\ FileAt(files', last'.target) = last'.id
              /\ IsSuffixed(basename(last'.target), last'.name) ]_vars

\* C2, amended: a step loses a file only when it is a collision move whose
\* timestamp-suffixed target that file occupied; and a file moved to a target
\* occupied by another entry, with the timestamp-suffixed path free, leaves
\* that entry where it was and lands under stem + timestamp + extension.
C2_CollisionKeepsBoth ==
    [][ /\ \A p \in DOMAIN files :
              files[p] \notin FileIds(files') =>
                 /\ StoreStep
                 /\ last'.collided
                 /\ last'.outcome = "moved"
                 /\ Resolve(last'.target) = p
        /\ (CollisionMove /\ ~exists(files, dirs', last'.target)) =>
              /\ FileIds(files') = FileIds(files)
              /\ FileAt(files', Append(last'.folder, last'.name))
                    = FileAt(files, Append(last'.folder, last'.name))
              /\ exists(files', dirs', Append(last'.folder, last'.name))
              /\ FileAt(files', last'.target) = last'.id
              /\ IsSuffixed(basename(last'.target), last'.name) ]_vars

\* a file has been moved to an occupied target and both files are on disk
C2_Witness ==
    /\ Returned
    /\ last.collided
    /\ last.outcome = "moved"
    /\ FileAt(files, Append(last.folder, last.name)) \notin {-1, last.id}
    /\ FileAt(files, last.target) = last.id
    /\ IsSuffixed(basename(last.target), last.name)

-----------------------------------------------------------------------------
(* Properties of the classifier (specifications SpecClassify, SpecReformat) *)

Called == last.outcome # "none"
Matched == last.outcome \notin {"none", "skipped"}

NoLineBreak(s, i, j) == \A k \in i..j : s[k] # "\n"

WordsToEnd(s, d) == d < Len(s) /\ \A k \in (d + 1)..Len(s) : IsWord(s[k])

\* <non-empty text> " - " <non-empty text> "." <word characters>
ClaimedForm(s) ==
    \E i \in 1..Len(s), d \in 1..Len(s) :
       /\ i + 5 <= d
       /\ s[i + 1] = " " /\ s[i + 2] = "-" /\ s[i + 3] = " "
       /\ s[d] = "."
       /\ WordsToEnd(s, d)

\* the same with any whitespace character on both sides of the hyphen and no
\* line break in the two texts
WhitespaceForm(s) ==
    \E i \in 1..Len(s), d \in 1..Len(s) :
       /\ i + 5 <= d
       /\ IsSpace(s[i + 1]) /\ s[i + 2] = "-" /\ IsSpace(s[i + 3])
       /\ NoLineBreak(s, 1, i)
       /\ NoLineBreak(s, i + 4, d - 1)
       /\ s[d] = "."
       /\ WordsToEnd(s, d)

\* an unmatched filename: no artist, no folder, no exception, one skip-warning
SkippedCleanly ==
    /\ last.segment = <<>>
    /\ last.artist = <<>>
    /\ last.folder = <<>>
    /\ last.made = {}
    /\ dirs = Prefixes(input_dir)
    /\ pc # "crashed"
    /\ events = <<"skip-warning">>

\* C6 as claimed: a filename is matched exactly when it has the form
\* <text> " - " <text> "." <word characters> with the literal separator
\* space, hyphen, space; an unmatched filename yields no artist, no folder and
\* no error.
C6_LiteralSeparator ==
    Called =>
        /\ Matched <=> ClaimedForm(last.name)
        /\ ~Matched => SkippedCleanly

\* C6, amended: a filename is matched exactly when it has the form
\* <text> <whitespace> "-" <whitespace> <text> "." <word characters> with
\* non-empty texts that hold no line break; an unmatched filename yields no
\* artist, no folder and no error.
C6_Classification ==
    Called =>
        /\ Matched <=> WhitespaceForm(last.name)
        /\ ~Matched => SkippedCleanly

\* a name with tabs around the hyphen has been matched and moved
C6_Witness ==
    /\ last.outcome = "moved"
    /\ ~ClaimedForm(last.name)
    /\ \E i \in 1..Len(last.name) : last.name[i] = "\t"

\* C7: for every filename that passes the structural check, get_artist finds
\* an artist segment and returns a non-empty artist name; ValueError is never
\* raised.
C7_ExtractionSucceeds ==
    Matched =>
        /\ last.error # "ValueError"
        /\ last.segment # <<>>
        /\ last.artist # <<>>

\* a matched name whose separator is not the literal " - " got its artist
C7_Witness ==
    /\ Matched
    /\ ~ClaimedForm(last.name)
    /\ last.artist = <<"A">>
    /\ last.error = "none"

\* the offsets at which whitespace, hyphen, whitespace occurs in s
Separators(s) ==
    {i \in 0..(Len(s) - 3) : IsSpace(s[i + 1]) /\ s[i + 2] = "-" /\ IsSpace(s[i + 3])}

\* those that follow at least one character
InnerSeparators(s) == Separators(s) \ {0}

\* C9 as claimed: the artist segment of a matched filename is the text before
\* the first occurrence of the separator (read here as the code reads it:
\* whitespace, hyphen, whitespace).
C9_BeforeFirstSeparator ==
    Matched =>
        /\ Separators(last.name) # {}
        /\ last.segment = SubSeq(last.name, 1, SetMin(Separators(last.name)))

\* C9, amended: the artist segment of a matched filename is its shortest
\* non-empty prefix that is followed by whitespace, hyphen, whitespace: never a
\* longer one, whatever group 1 of the structural check holds.
C9_ShortestPrefix ==
    Matched =>
        /\ InnerSeparators(last.name) # {}
        /\ last.segment = SubSeq(last.name, 1, SetMin(InnerSeparators(last.name)))
        /\ Len(last.segment) <= Len(last.group1)

\* a matched name with two separators: group 1 of the structural check reaches
\* the later one, the artist segment stops at the first
C9_Witness ==
    /\ Matched
    /\ Cardinality(InnerSeparators(last.name)) >= 2
    /\ Len(last.segment) < Len(last.group1)
    /\ last.segment = <<"a">>

LowerStr(s) == [i \in 1..Len(s) |-> ToLower(s[i])]

\* the offsets k such that s is "the" in any case, whitespace up to k, and a
\* non-empty rest
TheSplits(s) ==
    {k \in 4..(Len(s) - 1) :
        /\ LowerStr(SubSeq(s, 1, 3)) = <<"t", "h", "e">>
        /\ \A i \in 4..k : IsSpace(s[i])}

====
